---------------------------- MODULE Spec2Model ----------------------------
(***************************************************************************)
(* A model of LSASensitivityAnalyzer (src/sensitivity.py): the analyzer    *)
(* object with its input grid and stored results, the Analyze handler, and *)
(* the six sensitivity estimators it dispatches to.                        *)
(*                                                                         *)
(* Numbers.  Every float of the program is held as an integer count of     *)
(* hundredths (Scale), so that the perturbation delta = 0.01 is 1, the     *)
(* auction's eps = 1.0 is 100 and the text "5" parses to 500.  A NaN is    *)
(* not a number of the model: a matrix records the cells that hold one in  *)
(* its field nan.                                                          *)
(*                                                                         *)
(* Indices are 0-based as in the source.  A matrix (numpy array) is        *)
(* [shape |-> n, data |-> [Cells(n) -> Int], nan, inf |-> SUBSET Cells(n)] *)
(* where nan and inf are the cells that hold a NaN or an infinity.         *)
(* Arrays live in heap, and cost_matrix / sensitivity_matrix hold          *)
(* references, so that copying and aliasing are what the code makes them.  *)
(***************************************************************************)
EXTENDS Integers, Sequences, FiniteSets, TLC

(***************************************************************************)
(* Bounds of the model.                                                    *)
(***************************************************************************)
\* The matrix sizes the user sets: the spinbox steps through 2..8 and its
\* field takes any integer typed into it.
MatrixSizes == 1 .. 3
\* Total number of cell edits the user makes in a session.
MaxEdits == 4

(***************************************************************************)
(* Program constants.                                                      *)
(***************************************************************************)
\* One unit of the model's fixed-point numbers is delta = 0.01.
Scale == 100
\* delta = 0.01, in hundredths.
Delta == 1
\* matrix_size = tk.IntVar(value=4)
DefaultSize == 4
\* self.cost_matrix = None
None == 0
\* [-1] * n: the mark of an unassigned person or object.
Unassigned == -1
\* sensitivity[i, j] = min_gap if min_gap != float('inf') else 10.0
GeometricFallback == 1000
\* return min_cycle_cost if min_cycle_cost != float('inf') else 5.0
CycleFallback == 500
\* def auction_algorithm_sensitivity(self, cost_matrix, eps=1.0)
DefaultEps == 100

\* float('inf'): larger than every number the model computes.
Infinity == 1000000000

\* method_combo['values']
Methods ==
    << "basic", "dual_based", "auction_based", "geometric_bounds",
       "reduced_cost", "perturbation_theory", "all_methods" >>

\* entry.insert(0, "0")
DefaultText == "0"

\* The texts a user types into a cell: numerals, a text float() rejects,
\* and a text float() accepts as a NaN.
CellTexts == { "0", "5", "20", "abc", "nan" }

(***************************************************************************)
(* Small helpers: Python's range, min, max, abs.                           *)
(***************************************************************************)
Range(n) == 0 .. (n - 1)

Cells(n) == Range(n) \X Range(n)

Min(a, b) == IF a <= b THEN a ELSE b

Max(a, b) == IF a >= b THEN a ELSE b

Abs(a) == IF a >= 0 THEN a ELSE -a

\* np.min of a non-empty set of values.
SetMin(S) == CHOOSE x \in S : \A y \in S : x <= y

SetMax(S) == CHOOSE x \in S : \A y \in S : x >= y

\* np.zeros((n, n)) and np.zeros_like(cost_matrix)
Zeros(n) ==
    [shape |-> n, data |-> [c \in Cells(n) |-> 0], nan |-> {}, inf |-> {}]

At(M, i, j) == M.data[<<i, j>>]

WithCell(M, i, j, x) == [M EXCEPT !.data[<<i, j>>] = x]


(***************************************************************************)
(* The heap of arrays.  An object id is a positive integer; None is 0.     *)
(***************************************************************************)
NewId(h) ==
    CHOOSE k \in 1 .. (Cardinality(DOMAIN h) + 1) :
        /\ k \notin DOMAIN h
        /\ \A m \in 1 .. (k - 1) : m \in DOMAIN h

\* A freshly allocated array holding M: the heap after, and the reference.
Alloc(h, M) == [heap |-> (NewId(h) :> M) @@ h, ret |-> NewId(h)]

\* An assignment through a reference: ref[i, j] = x.
Store(h, ref, i, j, x) == [h EXCEPT ![ref] = WithCell(h[ref], i, j, x)]

\* What stays of the heap when the handler returns: the objects its roots hold.
Collect(h, roots) == [r \in (DOMAIN h) \cap roots |-> h[r]]

(***************************************************************************)
(* scipy.optimize.linear_sum_assignment.  On a square matrix it returns    *)
(* row_ind = 0..n-1 in ascending order and col_ind, a permutation of       *)
(* least total cost; which one among several of least cost is the          *)
(* library's choice, so the model keeps them all.  It raises ValueError    *)
(* on a matrix that holds a NaN.                                           *)
(***************************************************************************)
Bijections(n) ==
    { p \in [Range(n) -> Range(n)] : \A a, b \in Range(n) : p[a] = p[b] => a = b }

\* The sign of a permutation: the parity of its inversions.
SignOf(p, n) ==
    IF Cardinality({ x \in Cells(n) : x[1] < x[2] /\ p[x[1]] > p[x[2]] }) % 2 = 0
    THEN 1 ELSE -1

\* The permutations of each size with their signs, as <<n, p, sign>>.
SignedBijections ==
    UNION { { <<n, p, SignOf(p, n)>> : p \in Bijections(n) } : n \in MatrixSizes }

\* The permutations of 0..n-1.
PermutationsOf(n) == { t[2] : t \in { u \in SignedBijections : u[1] = n } }

RECURSIVE SumOver(_, _, _)
\* sum of f[0] .. f[n-1]
SumOver(f, n, k) == IF k >= n THEN 0 ELSE f[k] + SumOver(f, n, k + 1)

\* cost_matrix[row_ind, col_ind].sum() for the pairing i -> p[i]
AssignmentCost(C, p) == SumOver([i \in Range(C.shape) |-> At(C, i, p[i])], C.shape, 0)

\* A variant that accepts every matrix.
SolverNeverRaises(C) == FALSE

SolverRaises(C) == C.nan # {}

AsIndexArrays(n, p) ==
    [row_ind |-> [k \in 1 .. n |-> k - 1], col_ind |-> [k \in 1 .. n |-> p[k - 1]]]

\* A variant that pairs row i with column i, whatever the costs.
identity_assignment(C) == { AsIndexArrays(C.shape, [i \in Range(C.shape) |-> i]) }

linear_sum_assignment(C) ==
    LET least == SetMin({ AssignmentCost(C, r) : r \in PermutationsOf(C.shape) })
    IN  { AsIndexArrays(C.shape, p) : p \in
            { q \in PermutationsOf(C.shape) : AssignmentCost(C, q) = least } }

\* zip(row_ind, col_ind)
Zip(sigma) == { <<sigma.row_ind[k], sigma.col_ind[k]>> : k \in 1 .. Len(sigma.row_ind) }

\* col_ind[list(row_ind).index(i)]
ColumnOf(sigma, i) ==
    sigma.col_ind[CHOOSE k \in 1 .. Len(sigma.row_ind) :
        /\ sigma.row_ind[k] = i
        /\ \A m \in 1 .. (k - 1) : sigma.row_ind[m] # i]

(***************************************************************************)
(* METHOD 1: calculate_basic_sensitivity                                   *)
(***************************************************************************)
\* np.min(np.delete(cost_matrix[i, :], j)) if the row has other cells
row_min(C, i, j) ==
    IF C.shape > 1
    THEN SetMin({ At(C, i, k) : k \in Range(C.shape) \ {j} })
    ELSE At(C, i, j)

col_min(C, i, j) ==
    IF C.shape > 1
    THEN SetMin({ At(C, k, j) : k \in Range(C.shape) \ {i} })
    ELSE At(C, i, j)

\* A variant without the max(0, .) clamps.
BasicCellUnclamped(C, i, j) ==
    LET current_value   == At(C, i, j)
        row_sensitivity == current_value - row_min(C, i, j)
        col_sensitivity == current_value - col_min(C, i, j)
    IN  Min(row_sensitivity, col_sensitivity)

BasicCell(C, i, j) ==
    LET current_value   == At(C, i, j)
        row_sensitivity == Max(0, current_value - row_min(C, i, j))
        col_sensitivity == Max(0, current_value - col_min(C, i, j))
    IN  Min(row_sensitivity, col_sensitivity)

calculate_basic_sensitivity(h, c) ==
    LET C == h[c]
        z == Alloc(h, Zeros(C.shape))
    IN  [heap |-> [z.heap EXCEPT ![z.ret].data =
                        [x \in Cells(C.shape) |-> BasicCell(C, x[1], x[2])]],
         ret |-> z.ret]

(***************************************************************************)
(* METHOD 2: calculate_dual_based_sensitivity                              *)
(***************************************************************************)
\* A variant that puts every assigned cost on the column's variable.
dual_step_by_columns(C, uv, i, j) ==
    [u |-> [uv.u EXCEPT ![i] = 0],
     v |-> [uv.v EXCEPT ![j] = At(C, i, j)]]

\* A variant that gives the first row its cost as well as the column.
dual_step_unnormalised(C, uv, i, j) ==
    IF i = 0
    THEN [u |-> [uv.u EXCEPT ![i] = At(C, i, j)],
          v |-> [uv.v EXCEPT ![j] = At(C, i, j)]]
    ELSE [u |-> [uv.u EXCEPT ![i] = At(C, i, j) - uv.v[j]],
          v |-> uv.v]

\* The body of the loop of lines 214-220 for the pair (i, j).
dual_step(C, uv, i, j) ==
    IF i = 0
    THEN [u |-> [uv.u EXCEPT ![i] = 0],
          v |-> [uv.v EXCEPT ![j] = At(C, i, j)]]
    ELSE [u |-> [uv.u EXCEPT ![i] = At(C, i, j) - uv.v[j]],
          v |-> uv.v]

RECURSIVE DualPass(_, _, _, _)
\* for i, j in zip(row_ind, col_ind): the k-th pair onward, from duals uv
DualPass(C, sigma, k, uv) ==
    IF k > Len(sigma.row_ind) THEN uv
    ELSE DualPass(C, sigma, k + 1,
                  dual_step(C, uv, sigma.row_ind[k], sigma.col_ind[k]))

DualVariables(C, sigma) ==
    DualPass(C, sigma, 1, [u |-> [i \in Range(C.shape) |-> 0],
                           v |-> [j \in Range(C.shape) |-> 0]])

DualCell(C, uv, i, j) ==
    LET reduced_cost == At(C, i, j) - uv.u[i] - uv.v[j]
    IN  Max(0, reduced_cost)

\* sigma is what linear_sum_assignment(cost_matrix) returns at line 206.
calculate_dual_based_sensitivity(h, c, sigma) ==
    LET C  == h[c]
        uv == DualVariables(C, sigma)
        z  == Alloc(h, Zeros(C.shape))
    IN  [heap |-> [z.heap EXCEPT ![z.ret].data =
                        [x \in Cells(C.shape) |-> DualCell(C, uv, x[1], x[2])]],
         ret |-> z.ret,
         dual_variables |-> uv]

(***************************************************************************)
(* METHOD 4: geometric_bounds_sensitivity                                  *)
(***************************************************************************)
\* np.sort of the values f[0..n-1]: position k holds the value x with
\* fewer than k+1 values below it and at least k+1 values not above it.
Sort(f, n) ==
    [k \in Range(n) |->
        CHOOSE x \in { f[m] : m \in Range(n) } :
            /\ Cardinality({ m \in Range(n) : f[m] < x }) <= k
            /\ Cardinality({ m \in Range(n) : f[m] <= x }) > k]

\* np.where(sorted == value)[0][0]: the first position holding the value
FirstIndex(sorted, n, value) ==
    CHOOSE k \in Range(n) :
        /\ sorted[k] = value
        /\ \A m \in Range(k) : sorted[m] # value

\* A variant that measures the gap from the next entry down to the value.
GapDownward(sorted, n, value) ==
    LET rank == FirstIndex(sorted, n, value)
    IN  IF rank < n - 1 THEN value - sorted[rank + 1] ELSE Infinity

\* The gap of value to the next entry of its sorted row or column.
Gap(sorted, n, value) ==
    LET rank == FirstIndex(sorted, n, value)
    IN  IF rank < n - 1 THEN sorted[rank + 1] - value ELSE Infinity

GeometricCell(C, i, j) ==
    LET n             == C.shape
        row_sorted    == Sort([k \in Range(n) |-> At(C, i, k)], n)
        col_sorted    == Sort([k \in Range(n) |-> At(C, k, j)], n)
        current_value == At(C, i, j)
        row_gap       == Gap(row_sorted, n, current_value)
        col_gap       == Gap(col_sorted, n, current_value)
        min_gap       == Min(row_gap, col_gap)
    IN  IF min_gap # Infinity THEN min_gap ELSE GeometricFallback

geometric_bounds_sensitivity(h, c) ==
    LET C == h[c]
        z == Alloc(h, Zeros(C.shape))
    IN  [heap |-> [z.heap EXCEPT ![z.ret].data =
                        [x \in Cells(C.shape) |-> GeometricCell(C, x[1], x[2])]],
         ret |-> z.ret]

(***************************************************************************)
(* METHOD 5: reduced_cost_sensitivity and _find_min_cost_cycle             *)
(***************************************************************************)
\* A variant that prices the plain exchange of the two rows' columns: the
\* displaced worker alt_i is charged for alt_j, not for its own column.
CycleCostOfSwap(C, sigma, exclude_i, exclude_j, alt_i, alt_j) ==
    At(C, exclude_i, alt_j) + At(C, alt_i, exclude_j)
        - At(C, exclude_i, exclude_j) - At(C, alt_i, alt_j)

CycleCost(C, sigma, exclude_i, exclude_j, alt_i, alt_j) ==
    At(C, exclude_i, alt_j) + At(C, alt_i, exclude_j)
        - At(C, exclude_i, exclude_j) - At(C, alt_i, ColumnOf(sigma, alt_i))

find_min_cost_cycle(C, exclude_i, exclude_j, sigma) ==
    LET n == C.shape
        candidates ==
            { Abs(CycleCost(C, sigma, exclude_i, exclude_j, x[1], x[2])) :
                x \in { y \in Cells(n) :
                          /\ y[2] # exclude_j
                          /\ y[1] # exclude_i
                          /\ \E k \in 1 .. Len(sigma.row_ind) : sigma.row_ind[k] = y[1] } }
        min_cycle_cost == IF candidates = {} THEN Infinity ELSE SetMin(candidates)
    IN  IF min_cycle_cost # Infinity THEN min_cycle_cost ELSE CycleFallback

\* potentials_v after the loop of lines 432-433; potentials_u stays zero.
\* row_ind holds each row once, so each column is written once.
Potentials(C, sigma) ==
    [u |-> [i \in Range(C.shape) |-> 0],
     v |-> [j \in Range(C.shape) |->
              IF \E p \in Zip(sigma) : p[2] = j
              THEN LET i == CHOOSE i \in Range(C.shape) : <<i, j>> \in Zip(sigma)
                   IN  At(C, i, j) - 0
              ELSE 0]]

ReducedCell(C, sigma, i, j) ==
    LET pot          == Potentials(C, sigma)
        reduced_cost == At(C, i, j) - pot.u[i] - pot.v[j]
    IN  IF <<i, j>> \in Zip(sigma)
        THEN find_min_cost_cycle(C, i, j, sigma)
        ELSE Max(0, reduced_cost)

\* sigma is what linear_sum_assignment(cost_matrix) returns at line 421.
reduced_cost_sensitivity(h, c, sigma) ==
    LET C == h[c]
        z == Alloc(h, Zeros(C.shape))
    IN  [heap |-> [z.heap EXCEPT ![z.ret].data =
                        [x \in Cells(C.shape) |-> ReducedCell(C, sigma, x[1], x[2])]],
         ret |-> z.ret]

(***************************************************************************)
(* METHOD 6: perturbation_theory_sensitivity                               *)
(***************************************************************************)
\* A variant that hands back the array itself: pert_matrix = cost_matrix.
ndarray_alias(h, c) == [heap |-> h, ret |-> c]

\* cost_matrix.copy(): a new array with the same contents
ndarray_copy(h, c) == Alloc(h, h[c])

\* np.trace
Trace(M) == SumOver([k \in Range(M.shape) |-> At(M, k, k)], M.shape, 0)

\* pert_matrix - cost_matrix
Difference(P, C) == [x \in Cells(C.shape) |-> P.data[x] - C.data[x]]

\* np.linalg.norm(D, 'fro') and np.linalg.norm(D, 2) of a matrix with at
\* most one nonzero entry, which is all this estimator ever passes: both
\* are the absolute value of that entry.
NormOfSingleEntry(D) == SetMax({ Abs(D[x]) : x \in DOMAIN D })

RECURSIVE ProductOver(_, _, _)
\* f[0] * ... * f[n-1]
ProductOver(f, n, k) == IF k >= n THEN 1 ELSE f[k] * ProductOver(f, n, k + 1)

RECURSIVE SumOfTerms(_, _, _)
SumOfTerms(E, n, terms) ==
    IF terms = {} THEN 0
    ELSE LET t == CHOOSE t \in terms : TRUE
         IN  t[3] * ProductOver([k \in Range(n) |-> E[<<k, t[2][k]>>]], n, 0)
                + SumOfTerms(E, n, terms \ {t})

\* The determinant of an n x n integer matrix, by Leibniz's formula.
Det(E, n) == SumOfTerms(E, n, { t \in SignedBijections : t[1] = n })

\* Whether the matrix is singular.  Its entries are whole numbers of units
\* except, in a perturbed copy, the one cell that got delta.  With every
\* row taken in units but the row of that cell, which is taken in
\* hundredths, the determinant is that of the matrix in hundredths divided
\* by Scale^(n-1): zero together with it, and small enough to compute.
Singular(M) ==
    LET n   == M.shape
        off == { x[1] : x \in { y \in Cells(n) : M.data[y] % Scale # 0 } }
        E   == [x \in Cells(n) |->
                  IF x[1] \in off THEN M.data[x] ELSE M.data[x] \div Scale]
    IN  Det(E, n) = 0

\* abs(pert_cond - orig_cond) / delta, by the kind of value it is:
\* np.linalg.cond of a singular matrix is inf and raises nothing, inf - inf
\* is nan, and the difference of two finite condition numbers is finite.
\* The singular values are taken as exact: they are for the zero matrix and
\* for a matrix with one nonzero entry; for other singular matrices the
\* computed smallest singular value may round to a tiny nonzero number.
cond_sensitivity(C, P) ==
    LET orig_singular == Singular(C)
        pert_singular == Singular(P)
    IN  CASE orig_singular /\ pert_singular -> "nan"
          [] orig_singular # pert_singular -> "inf"
          [] OTHER -> "finite"

\* One pass of the loop body for cell (i, j), writing sensitivity[i, j] of
\* the array s.  The finite part of combined_sensitivity is kept in data
\* (without the condition-number term, whose finite size is not modelled);
\* an infinite or NaN term marks the cell in inf or nan.
PerturbCell(h, c, s, i, j) ==
    LET cp   == ndarray_copy(h, c)
        pert == cp.ret
        h1   == Store(cp.heap, pert, i, j, At(cp.heap[pert], i, j) + Delta)
        C    == h1[c]
        P    == h1[pert]
        trace_sensitivity     == (Abs(Trace(P) - Trace(C)) * Scale) \div Delta
        frobenius_sensitivity == (NormOfSingleEntry(Difference(P, C)) * Scale) \div Delta
        spectral_sensitivity  == (NormOfSingleEntry(Difference(P, C)) * Scale) \div Delta
        cond == cond_sensitivity(C, P)
        combined_sensitivity ==
            30 * frobenius_sensitivity + 30 * spectral_sensitivity
                + 20 * trace_sensitivity
        S    == [h1[s] EXCEPT
                   !.data[<<i, j>>] = combined_sensitivity,
                   !.nan = IF cond = "nan" THEN @ \cup {<<i, j>>} ELSE @,
                   !.inf = IF cond = "inf" THEN @ \cup {<<i, j>>} ELSE @]
    IN  \* sensitivity[i, j] is written; pert_matrix is dropped
        [r \in (DOMAIN h1) \ ({pert} \ {c, s}) |-> IF r = s THEN S ELSE h1[r]]

RECURSIVE PerturbLoop(_, _, _, _, _)
\* for i in range(rows): for j in range(cols): the k-th cell onward
PerturbLoop(h, c, s, n, k) ==
    IF k >= n * n THEN h
    ELSE PerturbLoop(PerturbCell(h, c, s, k \div n, k % n), c, s, n, k + 1)

perturbation_theory_sensitivity(h, c) ==
    LET z == Alloc(h, Zeros(h[c].shape))
    IN  [heap |-> PerturbLoop(z.heap, c, z.ret, h[c].shape, 0), ret |-> z.ret]

(***************************************************************************)
(* METHOD 3: auction_algorithm_sensitivity.  The loop runs one iteration   *)
(* per step of the model; these are the parts of its body.                 *)
(***************************************************************************)
\* max_iterations = n * n
max_iterations(n) == n * n

\* unassigned = [i for i in range(n) if assignment[i] == -1]
unassigned_of(asg) == { i \in DOMAIN asg : asg[i] = Unassigned }

\* benefits = -(cost_matrix[person, :] + prices)
benefits_of(C, person, pr) == [j \in Range(C.shape) |-> -(At(C, person, j) + pr[j])]

\* np.argmax: the first index of the largest value
ArgMax(f, n) ==
    CHOOSE j \in Range(n) :
        /\ \A k \in Range(n) : f[k] <= f[j]
        /\ \A k \in Range(j) : f[k] < f[j]

\* np.partition(benefits, -2)[-2] if n > 1 else benefits[0]
second_best_benefit_of(f, n) == IF n > 1 THEN Sort(f, n)[n - 2] ELSE f[0]

\* A variant that leaves eps out of the bid.
bid_increment_without_eps(best_benefit, second_best_benefit, eps) ==
    best_benefit - second_best_benefit

\* bid_increment = best_benefit - second_best_benefit + eps
bid_increment_of(best_benefit, second_best_benefit, eps) ==
    best_benefit - second_best_benefit + eps

\* A variant that leaves the outbid person assigned.
outbid_forgotten(asg, rev, best_obj) == asg

\* if reverse_assignment[best_obj] != -1: assignment[old_person] = -1
outbid(asg, rev, best_obj) ==
    IF rev[best_obj] # Unassigned
    THEN [asg EXCEPT ![rev[best_obj]] = Unassigned]
    ELSE asg

\* A variant that sets the price to the bid instead of adding the bid.
replace_price(pr, best_obj, bid_increment) == [pr EXCEPT ![best_obj] = bid_increment]

\* prices[best_obj] += bid_increment
raise_price(pr, best_obj, bid_increment) == [pr EXCEPT ![best_obj] = @ + bid_increment]

(***************************************************************************)
(* get_matrix_from_input                                                   *)
(***************************************************************************)
\* Whether float(text) returns.
IsFloat(t) == t \in { "0", "5", "20", "nan" }

\* float(text), in hundredths (0 stands in the data of a NaN cell).
FloatOf(t) ==
    CASE t = "0"  -> 0
      [] t = "5"  -> 5 * Scale
      [] t = "20" -> 20 * Scale
      [] OTHER    -> 0

\* Whether get_matrix_from_input raises: no grid was created, the grid is
\* smaller than matrix_size (IndexError), or a cell holds no float.
InputRaises(w, size) ==
    IF w.size = 0 \/ size > w.size
    THEN TRUE
    ELSE \E x \in Cells(size) : ~IsFloat(w.text[x])

\* The matrix get_matrix_from_input returns.
MatrixFromInput(w, size) ==
    [shape |-> size,
     data  |-> [x \in Cells(size) |-> FloatOf(w.text[x])],
     nan   |-> { x \in Cells(size) : w.text[x] = "nan" },
     inf   |-> {}]

(***************************************************************************)
(* The state.                                                              *)
(***************************************************************************)
VARIABLES
    matrix_size,          \* self.matrix_size
    sensitivity_method,   \* self.sensitivity_method
    entry_widgets,        \* self.entry_widgets: [size, text]
    heap,                 \* the arrays, by reference
    cost_matrix,          \* self.cost_matrix: a reference or None
    sensitivity_matrix,   \* self.sensitivity_matrix: a reference or None
    original_assignment,  \* self.original_assignment: <<>> for None
    original_cost,        \* self.original_cost: 0 while the assignment is None
    dual_variables,       \* self.dual_variables: <<>> for None
    results_frame,        \* what display_results drew: <<>> when empty
    viz_frame,            \* the heatmaps drawn, as <<title, matrix>> records
    pc,                   \* "idle", or "auction" inside the auction's loop
    methods,              \* compare_all_methods' dict so far, in insertion order
    prices,               \* locals of auction_algorithm_sensitivity
    assignment,
    reverse_assignment,
    iteration,
    sensitivity,          \* its local sensitivity array, a reference
    bids,                 \* history: the bids of the last auction, in order
    events,               \* the calls of the current Analyze click, in order
    input_ready,          \* the user has set the controls for the next click
    typing_budget,        \* how many cells the user types into, at most
    requests_left         \* Analyze clicks left to the user

vars ==
    << matrix_size, sensitivity_method, entry_widgets, heap, cost_matrix,
       sensitivity_matrix, original_assignment, original_cost, dual_variables,
       results_frame, viz_frame, pc, methods, prices, assignment,
       reverse_assignment, iteration, sensitivity, bids, events, input_ready,
       typing_budget, requests_left >>

analyzer_vars ==
    << heap, cost_matrix, sensitivity_matrix, original_assignment,
       original_cost, dual_variables, results_frame, viz_frame >>

auction_vars ==
    << pc, methods, prices, assignment, reverse_assignment, iteration, sensitivity >>

ui_vars == << matrix_size, sensitivity_method, entry_widgets >>

NoWidgets == [size |-> 0, text |-> << >>]

\* __init__
InitAnalyzer ==
    /\ matrix_size = DefaultSize
    /\ sensitivity_method = "basic"
    /\ entry_widgets = NoWidgets
    /\ heap = << >>
    /\ cost_matrix = None
    /\ sensitivity_matrix = None
    /\ original_assignment = << >>
    /\ original_cost = 0
    /\ dual_variables = << >>
    /\ results_frame = << >>
    /\ viz_frame = << >>
    /\ pc = "idle"
    /\ methods = << >>
    /\ prices = << >>
    /\ assignment = << >>
    /\ reverse_assignment = << >>
    /\ iteration = 0
    /\ sensitivity = None
    /\ bids = << >>
    /\ events = << >>

\* A session of one Analyze click.
Init ==
    /\ InitAnalyzer
    /\ input_ready = FALSE
    /\ typing_budget = MaxEdits
    /\ requests_left = 1

(***************************************************************************)
(* The user at the controls.  Between two Analyze clicks the user sets the *)
(* spinbox, presses Create Matrix, types into cells and picks a method;    *)
(* the model takes what the controls then hold from a bounded set.         *)
(***************************************************************************)
NumeralTexts == { t \in CellTexts : IsFloat(t) /\ t # "nan" }

\* The grid Create Matrix builds: every cell holds "0".
CreatedGrid(n) == [size |-> n, text |-> [x \in Cells(n) |-> DefaultText]]

\* A created grid with numerals typed into at most k of its cells.
TypedGrids(n, k) ==
    { [size |-> n, text |-> g] : g \in
        { f \in [Cells(n) -> NumeralTexts] :
            Cardinality({ x \in Cells(n) : f[x] # DefaultText }) <= k } }

\* A created grid with one text typed that is no numeral.
MistypedGrids(n) ==
    { [size |-> n, text |-> [CreatedGrid(n).text EXCEPT ![x] = t]] :
        x \in Cells(n), t \in CellTexts \ NumeralTexts }

\* What matrix_size and entry_widgets may hold at a click: a grid of the
\* selected size, typed or mistyped; or an untouched grid of another size
\* than the spinbox now shows; or no grid at all.
Inputs(k) ==
    UNION { { [size |-> n, widgets |-> w] : w \in TypedGrids(n, k) \cup MistypedGrids(n) } :
            n \in MatrixSizes }
    \cup { [size |-> p[1], widgets |-> CreatedGrid(p[2])] :
            p \in { q \in (MatrixSizes \cup {DefaultSize}) \X MatrixSizes : q[1] # q[2] } }
    \cup { [size |-> n, widgets |-> NoWidgets] : n \in MatrixSizes \cup {DefaultSize} }

UserInput ==
    /\ pc = "idle"
    /\ requests_left > 0
    /\ ~input_ready
    /\ \E inp \in Inputs(typing_budget), k \in 1 .. Len(Methods) :
          /\ matrix_size' = inp.size
          /\ entry_widgets' = inp.widgets
          /\ sensitivity_method' = Methods[k]
    /\ input_ready' = TRUE
    /\ UNCHANGED << analyzer_vars, auction_vars, bids, events, typing_budget,
                    requests_left >>

\* The Analyze button is clicked.
Clicked == pc = "idle" /\ requests_left > 0 /\ input_ready

(***************************************************************************)
(* analyze_sensitivity, the handler of the Analyze button, and             *)
(* compare_all_methods.  events lists the calls the handler makes.  The    *)
(* handler's locals are bound by \E over a singleton set, which TLC        *)
(* evaluates once per step.                                                *)
(***************************************************************************)
\* The estimators analyze_sensitivity runs in one step of the model; the
\* auction, whose loop the model steps through, is started by StartAuction.
DirectMethods ==
    { "basic", "dual_based", "geometric_bounds", "reduced_cost", "perturbation_theory" }

\* The function analyze_sensitivity dispatches a method to.
EstimatorName(method) ==
    CASE method = "basic"               -> "calculate_basic_sensitivity"
      [] method = "dual_based"          -> "calculate_dual_based_sensitivity"
      [] method = "auction_based"       -> "auction_algorithm_sensitivity"
      [] method = "geometric_bounds"    -> "geometric_bounds_sensitivity"
      [] method = "reduced_cost"        -> "reduced_cost_sensitivity"
      [] method = "perturbation_theory" -> "perturbation_theory_sensitivity"

\* A variant in which no estimator solves again.
EstimatorCallsReusing(method) == << EstimatorName(method) >>

\* The calls a run of the estimator adds to events: the call of the
\* estimator, and the call of linear_sum_assignment the dual-based and
\* the reduced-cost estimators make themselves (lines 206 and 421).
EstimatorCalls(method) ==
    << EstimatorName(method) >>
        \o (IF method \in { "dual_based", "reduced_cost" }
            THEN << "linear_sum_assignment" >> ELSE << >>)

\* The branch of lines 583-594 for a direct method: the estimator's result
\* and the calls it makes.  sigma is what linear_sum_assignment returns for
\* this matrix.
RunEstimator(method, h, c, sigma) ==
    CASE method = "basic" ->
            [out |-> calculate_basic_sensitivity(h, c),
             calls |-> EstimatorCalls(method)]
      [] method = "dual_based" ->
            [out |-> calculate_dual_based_sensitivity(h, c, sigma),
             calls |-> EstimatorCalls(method)]
      [] method = "geometric_bounds" ->
            [out |-> geometric_bounds_sensitivity(h, c),
             calls |-> EstimatorCalls(method)]
      [] method = "reduced_cost" ->
            [out |-> reduced_cost_sensitivity(h, c, sigma),
             calls |-> EstimatorCalls(method)]
      [] method = "perturbation_theory" ->
            [out |-> perturbation_theory_sensitivity(h, c),
             calls |-> EstimatorCalls(method)]

\* display_results: the labels it draws.
DisplayedResults(cost, method, sigma, S) ==
    [cost |-> cost, method |-> method, assignment |-> Zip(sigma), sensitivity |-> S]

\* create_visualization: the two heatmaps it draws.
Visualization(C, method, S) ==
    << [title |-> "Cost Matrix", matrix |-> C], [title |-> method, matrix |-> S] >>

\* A variant that assigns self.cost_matrix only once the solver has
\* returned: a failing solve leaves the old reference.
assigned_after_solve(old, parsed) == old

\* self.cost_matrix when the solver raises at line 577: line 576 has
\* already assigned the parsed matrix.
assigned_before_solve(old, parsed) == parsed

\* get_matrix_from_input raises: the except clause reports it.
AnalyzeInputRaises ==
    /\ Clicked
    /\ InputRaises(entry_widgets, matrix_size)
    /\ events' = << "get_matrix_from_input", "showerror" >>
    /\ input_ready' = FALSE
    /\ requests_left' = requests_left - 1
    /\ UNCHANGED << ui_vars, analyzer_vars, auction_vars, bids, typing_budget >>

\* linear_sum_assignment raises, after self.cost_matrix was set.
AnalyzeSolverRaises ==
    /\ Clicked
    /\ ~InputRaises(entry_widgets, matrix_size)
    /\ \E m \in { Alloc(heap, MatrixFromInput(entry_widgets, matrix_size)) } :
           /\ SolverRaises(m.heap[m.ret])
           /\ cost_matrix' = assigned_before_solve(cost_matrix, m.ret)
           /\ heap' = Collect(m.heap, {cost_matrix', sensitivity_matrix})
    /\ events' = << "get_matrix_from_input", "linear_sum_assignment", "showerror" >>
    /\ input_ready' = FALSE
    /\ requests_left' = requests_left - 1
    /\ UNCHANGED << ui_vars, sensitivity_matrix, original_assignment, original_cost,
                    dual_variables, results_frame, viz_frame, auction_vars, bids,
                    typing_budget >>

\* The whole handler for a method other than the auction and all_methods.
AnalyzeDirect ==
    /\ Clicked
    /\ ~InputRaises(entry_widgets, matrix_size)
    /\ sensitivity_method \in DirectMethods
    /\ \E m \in { Alloc(heap, MatrixFromInput(entry_widgets, matrix_size)) } :
       \E C \in { m.heap[m.ret] } :
           /\ ~SolverRaises(C)
           /\ \E sigma \in linear_sum_assignment(C) :
              \E r \in { RunEstimator(sensitivity_method, m.heap, m.ret, sigma) } :
              \E h \in { Collect(r.out.heap, {m.ret, r.out.ret}) } :
                    /\ cost_matrix' = m.ret
                    /\ original_assignment' = sigma
                    /\ original_cost' = AssignmentCost(C, [i \in Range(C.shape) |-> ColumnOf(sigma, i)])
                    /\ sensitivity_matrix' = r.out.ret
                    /\ dual_variables' =
                          IF sensitivity_method = "dual_based"
                          THEN r.out.dual_variables ELSE dual_variables
                    /\ heap' = h
                    /\ results_frame' =
                          DisplayedResults(original_cost', sensitivity_method, sigma, h[r.out.ret])
                    /\ viz_frame' = Visualization(h[m.ret], sensitivity_method, h[r.out.ret])
                    /\ events' = << "get_matrix_from_input", "linear_sum_assignment" >>
                                    \o r.calls
                                    \o << "display_results", "create_visualization" >>
    /\ input_ready' = FALSE
    /\ requests_left' = requests_left - 1
    /\ UNCHANGED << ui_vars, auction_vars, bids, typing_budget >>

\* A variant that enters the dual-based result first.
CompareBeforeAuctionSwapped(h, c, sigma) ==
    LET basic == calculate_basic_sensitivity(h, c)
        dual  == calculate_dual_based_sensitivity(basic.heap, c, sigma)
    IN  [heap |-> dual.heap,
         methods |-> << [name |-> "Dual-based", matrix |-> dual.ret],
                        [name |-> "Basic", matrix |-> basic.ret] >>,
         dual_variables |-> dual.dual_variables]

\* compare_all_methods, lines 614-615: the Basic and Dual-based entries of
\* its dict, which are evaluated before the auction is called.
CompareBeforeAuction(h, c, sigma) ==
    LET basic == calculate_basic_sensitivity(h, c)
        dual  == calculate_dual_based_sensitivity(basic.heap, c, sigma)
    IN  [heap |-> dual.heap,
         methods |-> << [name |-> "Basic", matrix |-> basic.ret],
                        [name |-> "Dual-based", matrix |-> dual.ret] >>,
         dual_variables |-> dual.dual_variables]

\* The handler up to the first iteration of the auction's loop: for
\* auction_based directly, for all_methods after the Basic and Dual-based
\* entries of compare_all_methods' dict.
StartAuction ==
    /\ Clicked
    /\ ~InputRaises(entry_widgets, matrix_size)
    /\ sensitivity_method \in { "auction_based", "all_methods" }
    /\ \E m \in { Alloc(heap, MatrixFromInput(entry_widgets, matrix_size)) } :
       \E C \in { m.heap[m.ret] }, all \in { sensitivity_method = "all_methods" } :
       \E n \in { C.shape } :
           /\ ~SolverRaises(C)
           /\ \E sigma \in linear_sum_assignment(C) :
              \E before \in { IF all
                               THEN CompareBeforeAuction(m.heap, m.ret, sigma)
                               ELSE [heap |-> m.heap, methods |-> << >>,
                                     dual_variables |-> dual_variables] } :
              \E z \in { Alloc(before.heap, Zeros(n)) } :
                    /\ cost_matrix' = m.ret
                    /\ original_assignment' = sigma
                    /\ original_cost' = AssignmentCost(C, [i \in Range(n) |-> ColumnOf(sigma, i)])
                    /\ dual_variables' = before.dual_variables
                    /\ methods' = before.methods
                    /\ sensitivity' = z.ret
                    /\ heap' = Collect(z.heap,
                                  {m.ret, sensitivity_matrix, z.ret}
                                    \cup { methods'[k].matrix : k \in 1 .. Len(methods') })
                    /\ events' =
                          << "get_matrix_from_input", "linear_sum_assignment" >>
                            \o (IF all
                                THEN << "compare_all_methods" >>
                                        \o EstimatorCalls("basic")
                                        \o EstimatorCalls("dual_based")
                                ELSE << >>)
                            \o EstimatorCalls("auction_based")
                    /\ prices' = [j \in Range(n) |-> 0]
                    /\ assignment' = [i \in Range(n) |-> Unassigned]
                    /\ reverse_assignment' = [j \in Range(n) |-> Unassigned]
    /\ iteration' = 0
    /\ bids' = << >>
    /\ pc' = "auction"
    /\ UNCHANGED << ui_vars, sensitivity_matrix, results_frame, viz_frame,
                    input_ready, typing_budget, requests_left >>

\* A variant without the cap: while True with the break alone.
LoopContinuesUncapped(it, asg) == unassigned_of(asg) # {}

\* Whether the loop runs another iteration: the range is not exhausted and
\* the break of line 278 is not taken.
LoopContinues(it, asg) ==
    /\ it < max_iterations(Cardinality(DOMAIN asg))
    /\ unassigned_of(asg) # {}

\* One iteration of the loop, lines 280-310.
AuctionBid ==
    /\ pc = "auction"
    /\ LoopContinues(iteration, assignment)
    /\ LET C       == heap[cost_matrix]
           n       == C.shape
           person  == SetMin(unassigned_of(assignment))
           benefits == benefits_of(C, person, prices)
           best_obj == ArgMax(benefits, n)
           second_best_benefit == second_best_benefit_of(benefits, n)
           best_benefit  == benefits[best_obj]
           bid_increment == bid_increment_of(best_benefit, second_best_benefit, DefaultEps)
           freed == outbid(assignment, reverse_assignment, best_obj)
       IN  /\ heap' = Store(heap, sensitivity, person, best_obj, bid_increment)
           /\ bids' = Append(bids, [person |-> person, best_obj |-> best_obj,
                                    bid_increment |-> bid_increment])
           /\ assignment' = [freed EXCEPT ![person] = best_obj]
           /\ reverse_assignment' = [reverse_assignment EXCEPT ![best_obj] = person]
           /\ prices' = raise_price(prices, best_obj, bid_increment)
    /\ iteration' = iteration + 1
    /\ UNCHANGED << ui_vars, cost_matrix, sensitivity_matrix, original_assignment,
                    original_cost, dual_variables, results_frame, viz_frame, pc,
                    methods, sensitivity, events, input_ready, typing_budget,
                    requests_left >>

\* The loop has ended: return sensitivity, and the rest of the handler.
\* For auction_based, lines 588 and 599-600; for all_methods, the other
\* entries of the dict and create_comparison_visualization.
AuctionReturn ==
    /\ pc = "auction"
    /\ ~LoopContinues(iteration, assignment)
    /\ IF sensitivity_method = "all_methods"
       THEN \E sigma \in { original_assignment } :
            \E geo \in { geometric_bounds_sensitivity(heap, cost_matrix) } :
            \E red \in { reduced_cost_sensitivity(geo.heap, cost_matrix, sigma) } :
            \E per \in { perturbation_theory_sensitivity(red.heap, cost_matrix) } :
            \E dict \in { methods \o
                           << [name |-> "Auction", matrix |-> sensitivity],
                              [name |-> "Geometric", matrix |-> geo.ret],
                              [name |-> "Reduced Cost", matrix |-> red.ret],
                              [name |-> "Perturbation", matrix |-> per.ret] >> } :
                /\ viz_frame' =
                      [k \in 1 .. Len(dict) |->
                          [title |-> dict[k].name, matrix |-> per.heap[dict[k].matrix]]]
                /\ heap' = Collect(per.heap, {cost_matrix, sensitivity_matrix})
                /\ events' = events
                      \o EstimatorCalls("geometric_bounds")
                      \o EstimatorCalls("reduced_cost")
                      \o EstimatorCalls("perturbation_theory")
                      \o << "create_comparison_visualization" >>
                /\ UNCHANGED << sensitivity_matrix, results_frame >>
       ELSE /\ sensitivity_matrix' = sensitivity
            /\ heap' = Collect(heap, {cost_matrix, sensitivity})
            /\ results_frame' =
                  DisplayedResults(original_cost, sensitivity_method,
                                   original_assignment, heap[sensitivity])
            /\ viz_frame' =
                  Visualization(heap[cost_matrix], sensitivity_method, heap[sensitivity])
            /\ events' = events \o << "display_results", "create_visualization" >>
    /\ pc' = "idle"
    /\ methods' = << >>
    /\ prices' = << >>
    /\ assignment' = << >>
    /\ reverse_assignment' = << >>
    /\ iteration' = 0
    /\ sensitivity' = None
    /\ input_ready' = FALSE
    /\ requests_left' = requests_left - 1
    /\ UNCHANGED << ui_vars, cost_matrix, original_assignment, original_cost,
                    dual_variables, bids, typing_budget >>

analyze_sensitivity ==
    \/ AnalyzeInputRaises
    \/ AnalyzeSolverRaises
    \/ AnalyzeDirect
    \/ StartAuction
    \/ AuctionBid
    \/ AuctionReturn

Next ==
    \/ UserInput
    \/ analyze_sensitivity

Spec == Init /\ [][Next]_vars

(***************************************************************************)
(* The estimators of METHOD 1 and METHOD 4 as functions of their argument. *)
(* The state is that of analyze_sensitivity after line 576, with           *)
(* self.cost_matrix holding the array of a fully typed grid; the entries   *)
(* are drawn from ArgumentValues.                                          *)
(***************************************************************************)
\* The entries of the matrices the estimators are applied to, in hundredths.
ArgumentValues == { -5 * Scale, 0, 5 * Scale }

\* The n x n matrices with entries among ArgumentValues.
ArgumentMatrices(n) ==
    { [shape |-> n, data |-> d, nan |-> {}, inf |-> {}] :
        d \in [Cells(n) -> ArgumentValues] }

EstimatorInit ==
    /\ matrix_size \in MatrixSizes
    /\ sensitivity_method \in { "basic", "geometric_bounds" }
    /\ entry_widgets = NoWidgets
    /\ heap \in { (1 :> C) : C \in ArgumentMatrices(matrix_size) }
    /\ cost_matrix = 1
    /\ sensitivity_matrix = None
    /\ original_assignment = << >>
    /\ original_cost = 0
    /\ dual_variables = << >>
    /\ results_frame = << >>
    /\ viz_frame = << >>
    /\ pc = "idle"
    /\ methods = << >>
    /\ prices = << >>
    /\ assignment = << >>
    /\ reverse_assignment = << >>
    /\ iteration = 0
    /\ sensitivity = None
    /\ bids = << >>
    /\ events = << >>
    /\ input_ready = TRUE
    /\ typing_budget = 0
    /\ requests_left = 1

\* self.sensitivity_matrix = self.calculate_basic_sensitivity(self.cost_matrix)
CallBasic ==
    /\ Clicked
    /\ sensitivity_method = "basic"
    /\ LET r == calculate_basic_sensitivity(heap, cost_matrix)
       IN  /\ heap' = r.heap
           /\ sensitivity_matrix' = r.ret
    /\ events' = << "calculate_basic_sensitivity" >>
    /\ input_ready' = FALSE
    /\ requests_left' = requests_left - 1
    /\ UNCHANGED << ui_vars, cost_matrix, original_assignment, original_cost,
                    dual_variables, results_frame, viz_frame, auction_vars, bids,
                    typing_budget >>

\* self.sensitivity_matrix = self.geometric_bounds_sensitivity(self.cost_matrix)
CallGeometric ==
    /\ Clicked
    /\ sensitivity_method = "geometric_bounds"
    /\ LET r == geometric_bounds_sensitivity(heap, cost_matrix)
       IN  /\ heap' = r.heap
           /\ sensitivity_matrix' = r.ret
    /\ events' = << "geometric_bounds_sensitivity" >>
    /\ input_ready' = FALSE
    /\ requests_left' = requests_left - 1
    /\ UNCHANGED << ui_vars, cost_matrix, original_assignment, original_cost,
                    dual_variables, results_frame, viz_frame, auction_vars, bids,
                    typing_budget >>

EstimatorNext ==
    \/ CallBasic
    \/ CallGeometric

EstimatorSpec == EstimatorInit /\ [][EstimatorNext]_vars

(***************************************************************************)
(* Properties of the auction (METHOD 3).                                   *)
(***************************************************************************)
\* The loop of auction_algorithm_sensitivity has ended: its range is
\* exhausted or its break is taken, and the function is about to return.
LoopEnded ==
    /\ pc = "auction"
    /\ \/ iteration >= matrix_size * matrix_size
       \/ \A i \in DOMAIN assignment : assignment[i] # Unassigned

\* No two rows hold the same column.
NoSharedColumn(asg) ==
    \A a, b \in DOMAIN asg :
        (asg[a] # Unassigned /\ asg[a] = asg[b]) => a = b

\* Every row holds a column of the matrix.
EveryRowAssigned(asg) == \A i \in DOMAIN asg : asg[i] \in Range(matrix_size)

\* C1, as stated: when the loop of auction_algorithm_sensitivity ends, the
\* row -> column assignment is a bijection: every row 0..n-1 holds a column
\* and no two rows hold the same column.
C1_BijectionAtLoopEnd ==
    LoopEnded => (EveryRowAssigned(assignment) /\ NoSharedColumn(assignment))

\* C1, amended: when the loop ends, no two rows hold the same column, and
\* every row holds a column unless the loop ended by exhausting its n * n
\* iterations, in which case a row may be left unassigned.
C1_InjectionAtLoopEnd ==
    LoopEnded =>
        /\ NoSharedColumn(assignment)
        /\ \/ EveryRowAssigned(assignment)
           \/ iteration = matrix_size * matrix_size

\* The loop has ended at its cap with a row left unassigned, after a bid
\* that took a column from another row.
C1_Witness ==
    /\ LoopEnded
    /\ iteration = matrix_size * matrix_size
    /\ ~EveryRowAssigned(assignment)
    /\ \E k \in 1 .. Len(bids) : \E m \in 1 .. (k - 1) :
          bids[m].best_obj = bids[k].best_obj /\ bids[m].person # bids[k].person

\* C2: the auction makes at most n * n bidding iterations, one at a time,
\* and makes no bid in a state where every row is assigned.
C2_BoundedIterations ==
    /\ [](pc = "auction" => iteration <= matrix_size * matrix_size)
    /\ [][iteration' > iteration =>
            /\ iteration' = iteration + 1
            /\ iteration < matrix_size * matrix_size
            /\ \E i \in DOMAIN assignment : assignment[i] = Unassigned]_vars

\* The loop stopped before its cap, after more than one bid, because no
\* row was unassigned.
C2_Witness ==
    /\ pc = "auction"
    /\ iteration > 1
    /\ iteration < matrix_size * matrix_size
    /\ \A i \in DOMAIN assignment : assignment[i] # Unassigned

\* An analysis by the given method has completed and its results stand.
Completed(method) ==
    /\ pc = "idle"
    /\ ~input_ready
    /\ sensitivity_method = method
    /\ events # << >>
    /\ \A k \in 1 .. Len(events) : events[k] # "showerror"

\* The bids made on cell x, by their positions in the history.
BidsOn(x) == { k \in 1 .. Len(bids) : <<bids[k].person, bids[k].best_obj>> = x }

\* The matrix M records the bids: a cell is nonzero exactly if it was bid
\* on, and a cell that was bid on holds the increment of the last bid.
RecordsBids(M) ==
    \A x \in Cells(M.shape) :
        /\ (M.data[x] # 0) <=> (BidsOn(x) # {})
        /\ BidsOn(x) # {} => M.data[x] = bids[SetMax(BidsOn(x))].bid_increment

\* C3: in the matrix auction_algorithm_sensitivity builds and returns, a
\* cell is nonzero if and only if its row bid on its column in some
\* iteration; a cell never bid on is 0 and a cell bid on holds the bid
\* increment of the last bid made on it.
C3_NonzeroIffBid ==
    /\ pc = "auction" => RecordsBids(heap[sensitivity])
    /\ Completed("auction_based") => RecordsBids(heap[sensitivity_matrix])

\* The auction has returned a matrix with a cell that was bid on more than
\* once and a cell that was never bid on.
C3_Witness ==
    /\ Completed("auction_based")
    /\ \E x \in Cells(matrix_size) : Cardinality(BidsOn(x)) > 1
    /\ \E x \in Cells(matrix_size) : BidsOn(x) = {}

(***************************************************************************)
(* Properties of the dual-based, basic and geometric estimators.           *)
(***************************************************************************)
\* C4: the dual variables (u, v) calculate_dual_based_sensitivity stores
\* satisfy u[i] + v[j] = cost[i, j] for every pair (i, j) of the solver's
\* assignment, and the sensitivity of every assigned cell is 0.
C4_ComplementarySlackness ==
    /\ (Completed("dual_based") \/ Completed("all_methods")) =>
          \A p \in Zip(original_assignment) :
              dual_variables.u[p[1]] + dual_variables.v[p[2]]
                  = At(heap[cost_matrix], p[1], p[2])
    /\ Completed("dual_based") =>
          \A p \in Zip(original_assignment) : heap[sensitivity_matrix].data[p] = 0

\* A dual-based analysis has completed on a matrix of several rows whose
\* assignment gives row 0 a cell of nonzero cost.
C4_Witness ==
    /\ Completed("dual_based")
    /\ matrix_size > 1
    /\ \E p \in Zip(original_assignment) :
          p[1] = 0 /\ At(heap[cost_matrix], p[1], p[2]) # 0

\* The n x n matrix with the given rows, each a tuple of units.
MatrixOf(rows) ==
    [x \in Cells(Len(rows)) |-> rows[x[1] + 1][x[2] + 1] * Scale]

\* calculate_basic_sensitivity has been applied to the matrix of the rows.
BasicAppliedTo(rows) ==
    /\ events = << "calculate_basic_sensitivity" >>
    /\ heap[cost_matrix].shape = Len(rows)
    /\ heap[cost_matrix].data = MatrixOf(rows)

\* C5, as stated: calculate_basic_sensitivity applied to [[0,5],[5,0]]
\* returns [[5,0],[0,5]].
C5_BasicScenarioAsStated ==
    BasicAppliedTo(<< <<0, 5>>, <<5, 0>> >>) =>
        heap[sensitivity_matrix].data = MatrixOf(<< <<5, 0>>, <<0, 5>> >>)

\* C5, amended: calculate_basic_sensitivity applied to [[0,5],[5,0]]
\* returns [[0,5],[5,0]]: 0 in the cells that hold 0, and 5 in the cells
\* that hold 5.
C5_BasicScenario ==
    BasicAppliedTo(<< <<0, 5>>, <<5, 0>> >>) =>
        /\ heap[sensitivity_matrix].shape = 2
        /\ heap[sensitivity_matrix].data = MatrixOf(<< <<0, 5>>, <<5, 0>> >>)

\* calculate_basic_sensitivity has been applied to [[0,5],[5,0]].
C5_Witness == BasicAppliedTo(<< <<0, 5>>, <<5, 0>> >>)

\* The value of the cell is the largest of its row and of its column,
\* other cells of the same value included.
RowAndColumnMaximum(C, i, j) ==
    \A k \in Range(C.shape) :
        At(C, i, k) <= At(C, i, j) /\ At(C, k, j) <= At(C, i, j)

\* C6: geometric_bounds_sensitivity gives the fallback 10.0 to every cell
\* whose value has no strictly higher value in its row and none in its
\* column; a matrix of equal entries gets 10.0 in every cell.
C6_FallbackAtMaximum ==
    events = << "geometric_bounds_sensitivity" >> =>
        \A x \in Cells(heap[cost_matrix].shape) :
            RowAndColumnMaximum(heap[cost_matrix], x[1], x[2]) =>
                heap[sensitivity_matrix].data[x] = GeometricFallback

\* geometric_bounds_sensitivity has been applied to the 3 x 3 matrix of 5s.
C6_Witness ==
    /\ events = << "geometric_bounds_sensitivity" >>
    /\ heap[cost_matrix].shape = 3
    /\ heap[cost_matrix].data = MatrixOf(<< <<5, 5, 5>>, <<5, 5, 5>>, <<5, 5, 5>> >>)

\* C7: every cell of the output of calculate_basic_sensitivity and every
\* cell of the output of geometric_bounds_sensitivity is >= 0, for matrices
\* of one row, with duplicate entries and with negative entries alike.
C7_NonNegative ==
    (events = << "calculate_basic_sensitivity" >>
        \/ events = << "geometric_bounds_sensitivity" >>) =>
        /\ \A x \in Cells(heap[cost_matrix].shape) :
              heap[sensitivity_matrix].data[x] >= 0
        /\ heap[sensitivity_matrix].nan = {}

\* geometric_bounds_sensitivity has been applied to a matrix with negative
\* entries and with a value that occurs twice in a row.
C7_Witness ==
    /\ events = << "geometric_bounds_sensitivity" >>
    /\ LET C == heap[cost_matrix]
       IN  /\ \E x \in Cells(C.shape) : C.data[x] < 0
           /\ \E i, j, k \in Range(C.shape) : j # k /\ At(C, i, j) = At(C, i, k)

(***************************************************************************)
(* Properties of analyze_sensitivity.                                      *)
(***************************************************************************)
\* How many times the call occurs in events.
Count(call) == Cardinality({ k \in 1 .. Len(events) : events[k] = call })

Returned == pc = "idle" /\ ~input_ready /\ events # << >>

\* The texts float() turns into a finite number.
FiniteTexts == { "0", "5", "20" }

\* The grid cannot be parsed into a matrix of finite numbers: there is no
\* grid, or it is smaller than matrix_size, or a cell of the matrix holds
\* a text that is no number or no finite one.
InputInvalid ==
    IF entry_widgets.size < matrix_size
    THEN TRUE
    ELSE \E x \in Cells(matrix_size) : entry_widgets.text[x] \notin FiniteTexts

\* The steps that follow a successful parse and solve.
LaterSteps ==
    { EstimatorName(Methods[k]) : k \in 1 .. (Len(Methods) - 1) }
        \cup { "compare_all_methods", "display_results", "create_visualization",
               "create_comparison_visualization" }

CostMatrixAsParsed ==
    heap[cost_matrix] = MatrixFromInput(entry_widgets, matrix_size)

\* C10: every estimator leaves the cost matrix it is given unchanged, and
\* the sensitivity matrix it returns is another object than the cost
\* matrix; perturbation_theory_sensitivity perturbs a copy only.
C10_CostMatrixUntouched ==
    /\ pc = "auction" =>
          /\ CostMatrixAsParsed
          /\ sensitivity # cost_matrix
          /\ \A k \in 1 .. Len(methods) : methods[k].matrix # cost_matrix
    /\ \A k \in 1 .. Len(Methods) :
          Completed(Methods[k]) =>
              /\ CostMatrixAsParsed
              /\ Methods[k] # "all_methods" =>
                    /\ sensitivity_matrix # cost_matrix
                    /\ sensitivity_matrix \in DOMAIN heap

\* perturbation_theory_sensitivity has returned for a matrix of several
\* rows with a nonzero entry.
C10_Witness ==
    /\ Completed("perturbation_theory")
    /\ matrix_size > 1
    /\ \E x \in Cells(matrix_size) : heap[cost_matrix].data[x] # 0

(***************************************************************************)
(* Properties of compare_all_methods.                                      *)
(***************************************************************************)
\* The display names of the comparison, in the order of the dict literal.
ComparisonNames ==
    << "Basic", "Dual-based", "Auction", "Geometric", "Reduced Cost", "Perturbation" >>

\* C11: for a valid n x n cost matrix compare_all_methods builds a mapping
\* of exactly six entries, in the order Basic, Dual-based, Auction,
\* Geometric, Reduced Cost, Perturbation, each an n x n matrix like the
\* input.
C11_SixEntriesInOrder ==
    Completed("all_methods") =>
        /\ Len(viz_frame) = 6
        /\ \A k \in 1 .. Len(viz_frame) :
              /\ viz_frame[k].title = ComparisonNames[k]
              /\ viz_frame[k].matrix.shape = heap[cost_matrix].shape
              /\ DOMAIN viz_frame[k].matrix.data = Cells(matrix_size)

\* A comparison has completed for a 3 x 3 matrix with a nonzero entry.
C11_Witness ==
    /\ Completed("all_methods")
    /\ matrix_size = 3
    /\ \E x \in Cells(matrix_size) : heap[cost_matrix].data[x] # 0

(***************************************************************************)
(* The solve at the start of an analysis, lines 577-579, as a function of  *)
(* the matrix parsed at line 576.                                          *)
(***************************************************************************)
\* The matrix of the first end-to-end scenario: [[4,1,3],[2,0,5],[3,2,2]].
ScenarioMatrix ==
    [shape |-> 3,
     data  |-> [x \in Cells(3) |->
                  << << 4, 1, 3 >>, << 2, 0, 5 >>, << 3, 2, 2 >> >>[x[1] + 1][x[2] + 1]
                      * Scale],
     nan   |-> {},
     inf   |-> {}]

\* After line 576: self.cost_matrix holds a parsed matrix, nothing else is
\* stored yet.
SolverInit ==
    /\ matrix_size \in MatrixSizes
    /\ sensitivity_method = "basic"
    /\ entry_widgets = NoWidgets
    /\ heap \in { (1 :> C) : C \in ArgumentMatrices(matrix_size)
                                    \cup { M \in {ScenarioMatrix} : M.shape = matrix_size } }
    /\ cost_matrix = 1
    /\ sensitivity_matrix = None
    /\ original_assignment = << >>
    /\ original_cost = 0
    /\ dual_variables = << >>
    /\ results_frame = << >>
    /\ viz_frame = << >>
    /\ pc = "idle"
    /\ methods = << >>
    /\ prices = << >>
    /\ assignment = << >>
    /\ reverse_assignment = << >>
    /\ iteration = 0
    /\ sensitivity = None
    /\ bids = << >>
    /\ events = << >>
    /\ input_ready = TRUE
    /\ typing_budget = 0
    /\ requests_left = 1

\* Lines 577-579: solve, and store the assignment and its cost.
Solve ==
    /\ Clicked
    /\ events = << >>
    /\ \E C \in { heap[cost_matrix] } :
       \E sigma \in linear_sum_assignment(C) :
          /\ original_assignment' = sigma
          /\ original_cost' =
                AssignmentCost(C, [i \in Range(C.shape) |-> ColumnOf(sigma, i)])
    /\ events' = << "linear_sum_assignment" >>
    /\ UNCHANGED << ui_vars, heap, cost_matrix, sensitivity_matrix, dual_variables,
                    results_frame, viz_frame, auction_vars, bids, input_ready,
                    typing_budget, requests_left >>

SolverSpec == SolverInit /\ [][Solve]_vars

\* The total cost of the pairing i -> p[i], summed cell by cell.
PairingCost(C, p) ==
    IF C.shape = 1 THEN At(C, 0, p[0])
    ELSE IF C.shape = 2 THEN At(C, 0, p[0]) + At(C, 1, p[1])
    ELSE At(C, 0, p[0]) + At(C, 1, p[1]) + At(C, 2, p[2])

\* C12: the assignment computed at the start of an analysis pairs the rows
\* 0..n-1 one to one with the columns 0..n-1, and its stored total cost is
\* the cost of that pairing and at most the cost of every other one; for
\* [[4,1,3],[2,0,5],[3,2,2]] it is (0,1), (1,0), (2,2) with total cost 5.
C12_OptimalAssignment ==
    events = << "linear_sum_assignment" >> =>
        LET C == heap[cost_matrix]
            n == C.shape
            pairs == Zip(original_assignment)
        IN  /\ \A i \in Range(n) : \E j \in Range(n) :
                  \A c \in Range(n) : (<<i, c>> \in pairs) <=> (c = j)
            /\ \A j \in Range(n) : \E i \in Range(n) :
                  \A r \in Range(n) : (<<r, j>> \in pairs) <=> (r = i)
            /\ \A p \in [Range(n) -> Range(n)] :
                  (\A a, b \in Range(n) : p[a] = p[b] => a = b) =>
                      /\ original_cost <= PairingCost(C, p)
                      /\ (\A i \in Range(n) : <<i, p[i]>> \in pairs) =>
                            original_cost = PairingCost(C, p)
            /\ C = ScenarioMatrix =>
                  /\ pairs = { <<0, 1>>, <<1, 0>>, <<2, 2>> }
                  /\ original_cost = 5 * Scale

\* The matrix of the scenario has been solved.
C12_Witness ==
    /\ events = << "linear_sum_assignment" >>
    /\ heap[cost_matrix] = ScenarioMatrix


(***************************************************************************)
(* C13: dual feasibility                                                   *)
(***************************************************************************)
\* The reduced cost of cell x under the stored dual variables, before the
\* clamp of line 229.
ReducedCostOf(x) ==
    At(heap[cost_matrix], x[1], x[2])
        - dual_variables.u[x[1]] - dual_variables.v[x[2]]

\* C13: the dual variables calculate_dual_based_sensitivity produces are
\* dual-feasible: u[i] + v[j] <= cost[i,j] for every cell (i,j), so that no
\* reduced cost is negative before it is clamped.
C13_DualFeasible ==
    (Completed("dual_based") \/ Completed("all_methods")) =>
        \A x \in Cells(matrix_size) : ReducedCostOf(x) >= 0

\* A dual-based analysis has completed and left a cell whose reduced cost
\* is negative: the clamp of line 229 reports it as 0.
C13_Witness ==
    /\ Completed("dual_based")
    /\ \E x \in Cells(matrix_size) :
          /\ ReducedCostOf(x) < 0
          /\ heap[sensitivity_matrix].data[x] = 0


(***************************************************************************)
(* C14: the values of reduced_cost_sensitivity                             *)
(***************************************************************************)
\* The column the stored assignment gives row i, and the row it gives
\* column j.
AssignedColumn(i) == CHOOSE j \in Range(matrix_size) : <<i, j>> \in Zip(original_assignment)
AssignedRow(j) == CHOOSE r \in Range(matrix_size) : <<r, j>> \in Zip(original_assignment)

\* The candidate cycle costs of the assigned cell (i, j).
CycleCandidates(i, j) ==
    LET cost == heap[cost_matrix].data
    IN  { Abs(cost[<<i, alt[2]>>] + cost[<<alt[1], j>>] - cost[<<i, j>>]
                - cost[<<alt[1], AssignedColumn(alt[1])>>]) :
            alt \in { a \in Cells(matrix_size) : a[1] # i /\ a[2] # j } }

\* C14: after reduced_cost_sensitivity, an assigned cell (i,j) holds the
\* least |cost[i,alt_j] + cost[alt_i,j] - cost[i,j] - cost[alt_i,sigma(alt_i)]|
\* over alt_j # j and alt_i # i, and the fallback 5.0 exactly when there is
\* no candidate, which is the case n = 1; an unassigned cell (i,j) holds
\* max(0, cost[i,j] - cost[r,j]) with r the row assigned to column j.
C14_ReducedCostValues ==
    Completed("reduced_cost") =>
        LET cost == heap[cost_matrix].data
            S    == heap[sensitivity_matrix].data
        IN  \A x \in Cells(matrix_size) :
                IF x \in Zip(original_assignment)
                THEN /\ (CycleCandidates(x[1], x[2]) = {}) <=> (matrix_size = 1)
                     /\ S[x] = IF CycleCandidates(x[1], x[2]) = {}
                               THEN 5 * Scale
                               ELSE SetMin(CycleCandidates(x[1], x[2]))
                ELSE S[x] = Max(0, cost[x] - cost[<<AssignedRow(x[2]), x[2]>>])

\* A reduced-cost analysis has completed on a matrix of three rows where an
\* assigned cell holds a nonzero cycle cost that is not the fallback and an
\* unassigned cell holds a positive reduced cost.
C14_Witness ==
    /\ Completed("reduced_cost")
    /\ matrix_size = 3
    /\ \E x \in Zip(original_assignment) :
          heap[sensitivity_matrix].data[x] \notin { 0, 5 * Scale }
    /\ \E x \in Cells(matrix_size) \ Zip(original_assignment) :
          heap[sensitivity_matrix].data[x] > 0

\* A reduced-cost analysis has completed on a matrix of one cell.
C14_FallbackWitness ==
    /\ Completed("reduced_cost")
    /\ matrix_size = 1
    /\ heap[sensitivity_matrix].data[<<0, 0>>] = 5 * Scale


(***************************************************************************)
(* C15: the condition-number term of perturbation_theory_sensitivity       *)
(***************************************************************************)
\* The stored cost matrix with delta added to cell x (lines 535-536).
PerturbedAt(x) == [heap[cost_matrix] EXCEPT !.data[x] = @ + Delta]

\* The stored cost matrix holds 0.0 in every cell.
CostMatrixIsZero == \A x \in Cells(matrix_size) : heap[cost_matrix].data[x] = 0

\* C15: in perturbation_theory_sensitivity, whenever the condition number
\* of the original or of the perturbed matrix is undefined or infinite (a
\* singular matrix), the condition-number term contributes 0, so that the
\* cell is finite: it is neither NaN nor infinite.
C15_CondTermZero ==
    Completed("perturbation_theory") =>
        \A x \in Cells(matrix_size) :
            (Singular(heap[cost_matrix]) \/ Singular(PerturbedAt(x))) =>
                /\ x \notin heap[sensitivity_matrix].nan
                /\ x \notin heap[sensitivity_matrix].inf

\* A perturbation analysis has completed on the 2 x 2 zero matrix, whose
\* condition number and that of each perturbed copy are infinite, and every
\* cell of the result is NaN.
C15_Witness ==
    /\ Completed("perturbation_theory")
    /\ matrix_size = 2
    /\ CostMatrixIsZero
    /\ heap[sensitivity_matrix].nan = Cells(matrix_size)


(***************************************************************************)
(* C16: the loop invariant of the auction                                  *)
(***************************************************************************)
\* assignment and reverse_assignment describe the same partial injection.
MutuallyConsistent ==
    /\ \A p \in DOMAIN assignment :
          assignment[p] # Unassigned => reverse_assignment[assignment[p]] = p
    /\ \A j \in DOMAIN reverse_assignment :
          reverse_assignment[j] # Unassigned => assignment[reverse_assignment[j]] = j
    /\ \A p, q \in DOMAIN assignment :
          (assignment[p] # Unassigned /\ assignment[p] = assignment[q]) => p = q

\* What one iteration does to the prices: exactly one column's price
\* changes, it rises by at least eps, and no price falls.
PriceStep ==
    /\ Cardinality({ j \in DOMAIN prices : prices'[j] # prices[j] }) = 1
    /\ \A j \in DOMAIN prices :
          /\ prices'[j] >= prices[j]
          /\ prices'[j] # prices[j] => prices'[j] - prices[j] >= DefaultEps

SessionClicks == 2
SessionEdits == 0

\* A session of SessionClicks Analyze clicks on grids with at most
\* SessionEdits typed cells.
SessionInit ==
    /\ InitAnalyzer
    /\ input_ready = FALSE
    /\ typing_budget = SessionEdits
    /\ requests_left = SessionClicks

SessionSpec == SessionInit /\ [][Next]_vars


\* The four stored fields are all set.
AllStored ==
    /\ cost_matrix # None
    /\ sensitivity_matrix # None
    /\ original_assignment # << >>

\* The stored assignment and cost are an optimal assignment of the stored
\* cost matrix and its total cost.
AssignmentFits ==
    LET C == heap[cost_matrix]
        n == C.shape
    IN  /\ original_assignment # << >>
        /\ Len(original_assignment.row_ind) = n
        /\ C.nan = {}
        /\ LET p == [i \in Range(n) |-> ColumnOf(original_assignment, i)]
           IN  /\ p \in Bijections(n)
               /\ original_cost = PairingCost(C, p)
               /\ \A q \in Bijections(n) : original_cost <= PairingCost(C, q)

\* The stored sensitivity matrix is what the method computes from the
\* stored cost matrix; for all_methods, one of the six matrices compared.
SensitivityFits(method) ==
    LET S == heap[sensitivity_matrix]
    IN  /\ S.shape = heap[cost_matrix].shape
        /\ CASE method \in DirectMethods ->
                  LET r == RunEstimator(method, heap, cost_matrix, original_assignment).out
                  IN  r.heap[r.ret] = S
             [] method = "auction_based" -> RecordsBids(S)
             [] OTHER -> \E k \in 1 .. Len(viz_frame) : viz_frame[k].matrix = S

\* The four stored fields, and the stored arrays, are as they were.
StoredUnchanged(fields) ==
    /\ "cost_matrix" \in fields =>
          /\ cost_matrix' = cost_matrix
          /\ cost_matrix # None => heap'[cost_matrix] = heap[cost_matrix]
    /\ "sensitivity_matrix" \in fields =>
          /\ sensitivity_matrix' = sensitivity_matrix
          /\ sensitivity_matrix # None =>
                heap'[sensitivity_matrix] = heap[sensitivity_matrix]
    /\ "original_assignment" \in fields => original_assignment' = original_assignment
    /\ "original_cost" \in fields => original_cost' = original_cost

StoredFields == { "cost_matrix", "sensitivity_matrix", "original_assignment", "original_cost" }

\* The step in which a request ends in the except clause, and the call
\* that raised.
FailedIn(call) ==
    /\ input_ready /\ ~input_ready'
    /\ events'[Len(events')] = "showerror"
    /\ events'[Len(events') - 1] = call

\* C17 as stated: after any sequence of requests, whenever the four stored
\* fields are all set, the stored assignment and cost are the optimal
\* assignment of the stored cost matrix and the stored sensitivity matrix
\* was computed from the stored cost matrix by the selected method; and a
\* failed request leaves all four stored fields unchanged.
C17_StoredFieldsConsistent ==
    /\ []((Returned /\ AllStored) =>
              (AssignmentFits /\ SensitivityFits(sensitivity_method)))
    /\ [][(FailedIn("get_matrix_from_input") \/ FailedIn("linear_sum_assignment"))
              => StoredUnchanged(StoredFields)]_vars

\* C17, amended: a request that completes with one of the six methods
\* leaves the four fields consistent; a request with all_methods stores the
\* new cost matrix, assignment and cost and leaves sensitivity_matrix as it
\* was; a request that fails in get_matrix_from_input leaves all four
\* unchanged; a request that fails in the solver has already stored the
\* new cost matrix and leaves the other three unchanged.
C17_StoredFields ==
    /\ [](\A m \in DirectMethods \cup { "auction_based" } :
              Completed(m) => (AllStored /\ AssignmentFits /\ SensitivityFits(m)))
    /\ [](Completed("all_methods") => AssignmentFits)
    /\ [][(sensitivity_method = "all_methods" /\ (pc = "auction" \/ pc' = "auction"))
              => StoredUnchanged({ "sensitivity_matrix" })]_vars
    /\ [][FailedIn("get_matrix_from_input") => StoredUnchanged(StoredFields)]_vars
    /\ [][FailedIn("linear_sum_assignment") =>
              /\ StoredUnchanged(StoredFields \ { "cost_matrix" })
              /\ cost_matrix' # None
              /\ cost_matrix' # cost_matrix
              /\ heap'[cost_matrix'] = MatrixFromInput(entry_widgets, matrix_size)]_vars

\* The second request of a session, with all_methods, has completed on a
\* matrix of another size than the first: the stored sensitivity matrix is
\* still the first request's.
C17_Witness ==
    /\ Completed("all_methods")
    /\ requests_left = 0
    /\ AllStored
    /\ heap[sensitivity_matrix].shape # heap[cost_matrix].shape

\* The second request of a session has failed in the solver after a first
\* that succeeded: the stored cost matrix holds a NaN and the stored
\* assignment is the first request's.
C17_StaleAssignment ==
    /\ Returned
    /\ requests_left = 0
    /\ AllStored
    /\ heap[cost_matrix].nan # {}


(***************************************************************************)
(* C18: the closed form of the single-pass dual construction               *)
(***************************************************************************)
\* The sum of the values of f over its domain 0..n-1.
Total(f) == SumOver(f, Cardinality(DOMAIN f), 0)

=============================================================================
